---- MODULE Spec2Model ----
(***************************************************************************)
(* The recommendation engine of micro-habits-tracker                       *)
(* (src/habit_recommender.py, class HabitRecommender).                     *)
(*                                                                         *)
(* Strings that the code lower-cases (moods, preferences, dictionary keys  *)
(* they are compared with) are records [text, caps]: text is the string    *)
(* with every letter in lower case, caps the set of positions that hold an *)
(* upper-case letter.  str.lower() clears caps.  Habit texts and mood      *)
(* category names are never case-converted and stay TLA+ strings.          *)
(* A dict is the sequence of its [k, v] items in insertion order.          *)
(*                                                                         *)
(* Spec is the recommender called by one caller, method by method;         *)
(* SpecConcurrent has two callers whose statements interleave;             *)
(* SpecService is a recommender constructed with a persistence service;    *)
(* SpecApi has to_json and the POST /recommend handler of src/api.py.      *)
(***************************************************************************)
EXTENDS Integers, Sequences, FiniteSets, TLC

VARIABLES
    habits,                  \* self.habits, the catalog
    pc,                      \* position of the get_habit_suggestion call
    mood,                    \* argument mood
    screen_time_minutes,     \* argument screen_time_minutes
    preferences,             \* argument preferences
    normalized_preferences,  \* local of get_habit_suggestion
    mood_category,           \* local of get_habit_suggestion
    screened_habits,         \* filtered_habits after _apply_screen_time_rules
    filtered_habits,         \* filtered_habits after _apply_mood_rules
    selected_habit,          \* local of get_habit_suggestion
    result,                  \* <<r>> once the call returned r, else <<>>
    raised,                  \* <<e>> once the call raised e, else <<>>
    ran,                     \* the methods the current call has run, in order
    fn,                      \* the last direct call of a helper method
    firebase_service,        \* self.firebase_service
    FIREBASE_AVAILABLE,      \* the module flag of lines 5-9
    store_calls,             \* the calls store_habit_suggestion has received
    random_choice,           \* what random.choice is bound to
    other                    \* the frame of a second caller's call

\* what no statement of get_habit_suggestion assigns
surroundings == <<firebase_service, FIREBASE_AVAILABLE, random_choice, other>>

vars == <<habits, pc, mood, screen_time_minutes, preferences,
          normalized_preferences, mood_category, screened_habits,
          filtered_habits, selected_habit, result, raised, ran, fn,
          firebase_service, FIREBASE_AVAILABLE, store_calls, random_choice,
          other>>

-----------------------------------------------------------------------------
(* Strings *)

Str(text, caps) == [text |-> text, caps |-> caps]

\* a string literal written in lower case
Lit(text) == Str(text, {})

\* positions of text that hold no letter (the space or underscore of the
\* two-word names)
NonLetters(text) ==
    CASE text \in {"physical activity", "physical_activity"} -> {9}
      [] text \in {"digital wellbeing", "digital_wellbeing"} -> {8}
      [] OTHER -> {}

Letters(text) == (1..Len(text)) \ NonLetters(text)

\* str.lower()
lower(s) == [s EXCEPT !.caps = {}]

\* str.capitalize(): first character upper case, the rest lower case
capitalize(s) == [s EXCEPT !.caps = {1} \cap Letters(s.text)]

\* the string in upper case, and with its first letter in upper case
Upper(text) == Str(text, Letters(text))
Title(text) == Str(text, {1} \cap Letters(text))

-----------------------------------------------------------------------------
(* Dicts and lists *)

DictHas(d, k) == \E i \in 1..Len(d) : d[i].k = k

DictGet(d, k) == d[CHOOSE i \in 1..Len(d) : d[i].k = k].v

\* dict.get(k, default)
DictGetOr(d, k, default) == IF DictHas(d, k) THEN DictGet(d, k) ELSE default

\* d[k] = v: a present key keeps its place, a new key goes last
DictSet(d, k, v) ==
    IF DictHas(d, k)
    THEN [i \in 1..Len(d) |-> IF d[i].k = k THEN [k |-> k, v |-> v] ELSE d[i]]
    ELSE Append(d, [k |-> k, v |-> v])

\* list * n
Rep(list, n) ==
    [i \in 1..(Len(list) * n) |-> list[((i - 1) % Len(list)) + 1]]

\* x in list
InList(x, list) == \E i \in 1..Len(list) : list[i] = x

-----------------------------------------------------------------------------
(* The tables set by __init__ *)

InitialHabits == <<
    [k |-> Lit("relaxation"), v |-> <<
        "Listen to calming music for 5 minutes",
        "Take a 5-minute breathing break",
        "Practice progressive muscle relaxation",
        "Do a quick guided meditation",
        "Take a mindful tea break">>],
    [k |-> Lit("mindfulness"), v |-> <<
        "Do a 5-minute meditation session",
        "Practice mindful breathing for 3 minutes",
        "Journal 3 things you're grateful for",
        "Do a body scan meditation",
        "Practice mindful walking for 5 minutes">>],
    [k |-> Lit("physical_activity"), v |-> <<
        "Go for a short 10-minute walk",
        "Do 5 minutes of stretching",
        "Do 10 jumping jacks",
        "Take the stairs instead of elevator",
        "Do a quick yoga flow">>],
    [k |-> Lit("productivity"), v |-> <<
        "Tidy your workspace",
        "Read a book for 10 minutes",
        "Write down your top 3 priorities",
        "Organize your digital files",
        "Learn something new for 10 minutes">>],
    [k |-> Lit("social"), v |-> <<
        "Send a message to a friend",
        "Call a family member",
        "Write a thank you note",
        "Compliment someone",
        "Reach out to an old friend">>],
    [k |-> Lit("creative"), v |-> <<
        "Doodle or sketch for 5 minutes",
        "Write a short poem or haiku",
        "Take 3 interesting photos",
        "Brainstorm ideas for a project",
        "Listen to a new genre of music">>],
    [k |-> Lit("digital_wellbeing"), v |-> <<
        "Turn off notifications for 30 minutes",
        "Do a quick digital declutter",
        "Take a short screen break",
        "Adjust your screen brightness",
        "Set app time limits">>],
    [k |-> Lit("nature"), v |-> <<
        "Step outside for fresh air",
        "Water your plants",
        "Look at the sky for a few minutes",
        "Listen to nature sounds",
        "Open a window for fresh air">>] >>

valid_moods == <<
    Lit("stressed"), Lit("anxious"), Lit("overwhelmed"),
    Lit("tired"), Lit("fatigued"), Lit("exhausted"),
    Lit("happy"), Lit("excited"), Lit("motivated"),
    Lit("bored"), Lit("understimulated"), Lit("restless"),
    Lit("sad"), Lit("down"), Lit("depressed"),
    Lit("angry"), Lit("frustrated"), Lit("irritated") >>

\* a variant: the words of anger are left out of the category 'negative'
mood_categories_without_anger == <<
    [k |-> "stressed_anxious",
     v |-> <<Lit("stressed"), Lit("anxious"), Lit("overwhelmed")>>],
    [k |-> "tired_fatigued",
     v |-> <<Lit("tired"), Lit("fatigued"), Lit("exhausted")>>],
    [k |-> "happy_excited",
     v |-> <<Lit("happy"), Lit("excited"), Lit("motivated")>>],
    [k |-> "understimulated",
     v |-> <<Lit("bored"), Lit("understimulated"), Lit("restless")>>],
    [k |-> "negative",
     v |-> <<Lit("sad"), Lit("down"), Lit("depressed")>>] >>

mood_categories == <<
    [k |-> "stressed_anxious",
     v |-> <<Lit("stressed"), Lit("anxious"), Lit("overwhelmed")>>],
    [k |-> "tired_fatigued",
     v |-> <<Lit("tired"), Lit("fatigued"), Lit("exhausted")>>],
    [k |-> "happy_excited",
     v |-> <<Lit("happy"), Lit("excited"), Lit("motivated")>>],
    [k |-> "understimulated",
     v |-> <<Lit("bored"), Lit("understimulated"), Lit("restless")>>],
    [k |-> "negative",
     v |-> <<Lit("sad"), Lit("down"), Lit("depressed"),
             Lit("angry"), Lit("frustrated"), Lit("irritated")>>] >>

valid_preferences == <<
    Lit("relaxation"), Lit("mindfulness"), Lit("physical_activity"),
    Lit("productivity"), Lit("social"), Lit("creative"),
    Lit("digital_wellbeing"), Lit("nature") >>

preference_display_names == <<
    [k |-> Lit("relaxation"), v |-> Str("relaxation", {1})],
    [k |-> Lit("mindfulness"), v |-> Str("mindfulness", {1})],
    [k |-> Lit("physical_activity"), v |-> Str("physical activity", {1, 10})],
    [k |-> Lit("productivity"), v |-> Str("productivity", {1})],
    [k |-> Lit("social"), v |-> Str("social", {1})],
    [k |-> Lit("creative"), v |-> Str("creative", {1})],
    [k |-> Lit("digital_wellbeing"), v |-> Str("digital wellbeing", {1, 9})],
    [k |-> Lit("nature"), v |-> Str("nature", {1})] >>

mood_preference_affinity == <<
    [k |-> "stressed_anxious",
     v |-> <<Lit("relaxation"), Lit("mindfulness"), Lit("nature")>>],
    [k |-> "tired_fatigued",
     v |-> <<Lit("physical_activity"), Lit("nature"), Lit("social")>>],
    [k |-> "happy_excited",
     v |-> <<Lit("productivity"), Lit("creative"), Lit("social")>>],
    [k |-> "understimulated",
     v |-> <<Lit("creative"), Lit("physical_activity"), Lit("productivity")>>],
    [k |-> "negative",
     v |-> <<Lit("mindfulness"), Lit("social"), Lit("nature")>>] >>

\* Python's None, where a mood category is expected
None == "None"

-----------------------------------------------------------------------------
(* Values of screen_time_minutes: an int, or a value that is no number *)

IntVal(n) == [type |-> "int", val |-> n]
StrVal == [type |-> "str", val |-> 0]

\* isinstance(x, (int, float))
IsNumber(x) == x.type \in {"int", "float"}

-----------------------------------------------------------------------------
(* _normalize_preferences *)

\* {v.lower(): k for k, v in self.preference_display_names.items()}
\* (the lower-cased display names are pairwise different)
display_to_internal ==
    [i \in 1..Len(preference_display_names) |->
        [k |-> lower(preference_display_names[i].v),
         v |-> preference_display_names[i].k]]

\* a variant: the display names are looked up case-sensitively and an
\* unrecognised entry is kept in lower case
normalize_preference_case_slip(pref) ==
    LET pref_lower == lower(pref) IN
    IF DictHas(display_to_internal, pref)
    THEN DictGet(display_to_internal, pref)
    ELSE IF InList(pref_lower, valid_preferences)
    THEN pref_lower
    ELSE pref_lower

\* the body of the loop, for one entry
normalize_preference(pref) ==
    LET pref_lower == lower(pref) IN
    IF DictHas(display_to_internal, pref_lower)
    THEN DictGet(display_to_internal, pref_lower)
    ELSE IF InList(pref_lower, valid_preferences)
    THEN pref_lower
    ELSE pref

\* a variant: an unrecognised entry is left out of the list
normalize_preferences_dropping(prefs) ==
    SelectSeq([i \in 1..Len(prefs) |-> normalize_preference(prefs[i])],
              LAMBDA x : InList(x, valid_preferences))

normalize_preferences(prefs) ==
    [i \in 1..Len(prefs) |-> normalize_preference(prefs[i])]

-----------------------------------------------------------------------------
(* _validate_inputs: <<>> when it returns, <<e>> when it raises e *)

ValueError(head, value, valid) ==
    [exc |-> "ValueError", head |-> head, value |-> value, valid |-> valid]

InvalidMoodError(m) ==
    ValueError("Invalid mood: ", m, valid_moods)

InvalidScreenTimeError ==
    ValueError("Screen time must be a positive number of minutes",
               Lit(""), <<>>)

InvalidPreferenceError(pref) ==
    ValueError("Invalid preference: ", pref, valid_preferences)

\* a variant: the loop over the preferences runs to its end and the error
\* names the last invalid one
validate_inputs_naming_last(m, t, prefs) ==
    IF ~InList(lower(m), valid_moods)
    THEN <<InvalidMoodError(m)>>
    ELSE IF ~IsNumber(t) \/ t.val < 0
    THEN <<InvalidScreenTimeError>>
    ELSE LET normalized == normalize_preferences(prefs)
             bad == {i \in 1..Len(normalized) :
                        ~InList(normalized[i], valid_preferences)}
         IN  IF bad = {}
             THEN <<>>
             ELSE <<InvalidPreferenceError(
                        normalized[CHOOSE i \in bad : \A j \in bad : i >= j])>>

\* a variant: a screen time of 0 is refused
validate_inputs_refusing_zero(m, t, prefs) ==
    IF ~InList(lower(m), valid_moods)
    THEN <<InvalidMoodError(m)>>
    ELSE IF ~IsNumber(t) \/ t.val <= 0
    THEN <<InvalidScreenTimeError>>
    ELSE LET normalized == normalize_preferences(prefs)
             bad == {i \in 1..Len(normalized) :
                        ~InList(normalized[i], valid_preferences)}
         IN  IF bad = {}
             THEN <<>>
             ELSE <<InvalidPreferenceError(
                        normalized[CHOOSE i \in bad : \A j \in bad : i <= j])>>

\* a variant: the screen time is checked before the mood
validate_inputs_screen_time_first(m, t, prefs) ==
    IF ~IsNumber(t) \/ t.val < 0
    THEN <<InvalidScreenTimeError>>
    ELSE IF ~InList(lower(m), valid_moods)
    THEN <<InvalidMoodError(m)>>
    ELSE LET normalized == normalize_preferences(prefs)
             bad == {i \in 1..Len(normalized) :
                        ~InList(normalized[i], valid_preferences)}
         IN  IF bad = {}
             THEN <<>>
             ELSE <<InvalidPreferenceError(
                        normalized[CHOOSE i \in bad : \A j \in bad : i <= j])>>

\* a variant: only the type of the screen time is checked
validate_inputs_any_number(m, t, prefs) ==
    IF ~InList(lower(m), valid_moods)
    THEN <<InvalidMoodError(m)>>
    ELSE IF ~IsNumber(t)
    THEN <<InvalidScreenTimeError>>
    ELSE LET normalized == normalize_preferences(prefs)
             bad == {i \in 1..Len(normalized) :
                        ~InList(normalized[i], valid_preferences)}
         IN  IF bad = {}
             THEN <<>>
             ELSE <<InvalidPreferenceError(
                        normalized[CHOOSE i \in bad : \A j \in bad : i <= j])>>

validate_inputs(m, t, prefs) ==
    IF ~InList(lower(m), valid_moods)
    THEN <<InvalidMoodError(m)>>
    ELSE IF ~IsNumber(t) \/ t.val < 0
    THEN <<InvalidScreenTimeError>>
    ELSE LET normalized == normalize_preferences(prefs)
             bad == {i \in 1..Len(normalized) :
                        ~InList(normalized[i], valid_preferences)}
         IN  IF bad = {}
             THEN <<>>
             ELSE <<InvalidPreferenceError(
                        normalized[CHOOSE i \in bad : \A j \in bad : i <= j])>>

-----------------------------------------------------------------------------
(* The mood category loop of get_habit_suggestion (lines 155-159) *)

RECURSIVE classify_from(_, _)
classify_from(m, i) ==
    IF i > Len(mood_categories)
    THEN None
    ELSE IF InList(lower(m), mood_categories[i].v)
    THEN mood_categories[i].k
    ELSE classify_from(m, i + 1)

classify(m) == classify_from(m, 1)

-----------------------------------------------------------------------------
(* _apply_screen_time_rules *)

\* for category in categories:
\*     filtered_habits[category] = filtered_habits.get(category, []) * 2
RECURSIVE double_categories(_, _)
double_categories(d, categories) ==
    IF categories = <<>>
    THEN d
    ELSE double_categories(
            DictSet(d, Head(categories),
                    Rep(DictGetOr(d, Head(categories), <<>>), 2)),
            Tail(categories))

\* a variant: the upper tier starts at 240
apply_screen_time_rules_from_240(self_habits, t) ==
    LET copy == self_habits
        filtered ==
            IF t >= 240
            THEN double_categories(copy,
                    <<Lit("digital_wellbeing"), Lit("physical_activity"),
                      Lit("nature")>>)
            ELSE IF t > 120
            THEN double_categories(copy, <<Lit("digital_wellbeing")>>)
            ELSE copy
    IN  [self_habits |-> self_habits, ret |-> filtered]

\* a variant: filtered_habits = self.habits, without the copy, so that the
\* assignments rebind the keys of the catalog
apply_screen_time_rules_no_copy(self_habits, t) ==
    LET filtered ==
            IF t > 240
            THEN double_categories(self_habits,
                    <<Lit("digital_wellbeing"), Lit("physical_activity"),
                      Lit("nature")>>)
            ELSE IF t > 120
            THEN double_categories(self_habits, <<Lit("digital_wellbeing")>>)
            ELSE self_habits
    IN  [self_habits |-> filtered, ret |-> filtered]

\* a variant: above 240 the loop covers only the two categories the comment
\* of line 258 names
apply_screen_time_rules_without_nature(self_habits, t) ==
    LET copy == self_habits
        filtered ==
            IF t > 240
            THEN double_categories(copy,
                    <<Lit("digital_wellbeing"), Lit("physical_activity")>>)
            ELSE IF t > 120
            THEN double_categories(copy, <<Lit("digital_wellbeing")>>)
            ELSE copy
    IN  [self_habits |-> self_habits, ret |-> filtered]

\* The method works on self.habits.copy(): its assignments rebind keys of
\* the copy, and list * 2 builds a new list, so self.habits keeps its items.
\* The record holds self.habits after the call and the value returned.
apply_screen_time_rules(self_habits, t) ==
    LET copy == self_habits
        filtered ==
            IF t > 240
            THEN double_categories(copy,
                    <<Lit("digital_wellbeing"), Lit("physical_activity"),
                      Lit("nature")>>)
            ELSE IF t > 120
            THEN double_categories(copy, <<Lit("digital_wellbeing")>>)
            ELSE copy
    IN  [self_habits |-> self_habits, ret |-> filtered]

-----------------------------------------------------------------------------
(* _apply_mood_rules *)

\* for pref in preferences:
\*     if pref in filtered_habits: result_habits[pref] = filtered_habits[pref] * 2
RECURSIVE preferred_categories(_, _, _)
preferred_categories(result_habits, filtered, prefs) ==
    IF prefs = <<>>
    THEN result_habits
    ELSE preferred_categories(
            IF DictHas(filtered, Head(prefs))
            THEN DictSet(result_habits, Head(prefs),
                         Rep(DictGet(filtered, Head(prefs)), 2))
            ELSE result_habits,
            filtered, Tail(prefs))

\* for pref in affinity_prefs:
\*     if pref in preferences and pref in result_habits:
\*         result_habits[pref] = filtered_habits[pref] * 3
RECURSIVE affinity_boost(_, _, _, _)
affinity_boost(result_habits, filtered, prefs, affinity_prefs) ==
    IF affinity_prefs = <<>>
    THEN result_habits
    ELSE affinity_boost(
            IF InList(Head(affinity_prefs), prefs)
               /\ DictHas(result_habits, Head(affinity_prefs))
            THEN DictSet(result_habits, Head(affinity_prefs),
                         Rep(DictGet(filtered, Head(affinity_prefs)), 3))
            ELSE result_habits,
            filtered, prefs, Tail(affinity_prefs))

\* a variant: the loop runs over the categories of filtered_habits, not over
\* the affinity preferences
mood_defaults_whole_catalog(result_habits, filtered, affinity_prefs) ==
    IF affinity_prefs = <<>>
    THEN result_habits
    ELSE result_habits \o
         [i \in 1..Len(filtered) |->
            [k |-> filtered[i].k, v |-> Rep(filtered[i].v, 2)]]

\* for pref in affinity_prefs:
\*     if pref in filtered_habits: result_habits[pref] = filtered_habits[pref] * 2
RECURSIVE mood_defaults(_, _, _)
mood_defaults(result_habits, filtered, affinity_prefs) ==
    IF affinity_prefs = <<>>
    THEN result_habits
    ELSE mood_defaults(
            IF DictHas(filtered, Head(affinity_prefs))
            THEN DictSet(result_habits, Head(affinity_prefs),
                         Rep(DictGet(filtered, Head(affinity_prefs)), 2))
            ELSE result_habits,
            filtered, Tail(affinity_prefs))

\* a variant: the boost triples the entry the first loop made
RECURSIVE affinity_boost_compounding(_, _, _, _)
affinity_boost_compounding(result_habits, filtered, prefs, affinity_prefs) ==
    IF affinity_prefs = <<>>
    THEN result_habits
    ELSE affinity_boost_compounding(
            IF InList(Head(affinity_prefs), prefs)
               /\ DictHas(result_habits, Head(affinity_prefs))
            THEN DictSet(result_habits, Head(affinity_prefs),
                         Rep(DictGet(result_habits, Head(affinity_prefs)), 3))
            ELSE result_habits,
            filtered, prefs, Tail(affinity_prefs))

apply_mood_rules_compounding(category, filtered, prefs) ==
    LET has_affinity == DictHas(mood_preference_affinity, category)
        affinity_prefs == DictGet(mood_preference_affinity, category)
        preferred ==
            IF prefs # <<>>
            THEN LET first == preferred_categories(<<>>, filtered, prefs)
                 IN  IF has_affinity
                     THEN affinity_boost_compounding(first, filtered, prefs,
                                                     affinity_prefs)
                     ELSE first
            ELSE <<>>
        defaulted ==
            IF preferred = <<>> /\ has_affinity
            THEN mood_defaults(<<>>, filtered, affinity_prefs)
            ELSE preferred
    IN  IF defaulted = <<>> THEN filtered ELSE defaulted

\* a variant: the mood defaults are added whether or not a preference matched
apply_mood_rules_always_defaults(category, filtered, prefs) ==
    LET has_affinity == DictHas(mood_preference_affinity, category)
        affinity_prefs == DictGet(mood_preference_affinity, category)
        preferred ==
            IF prefs # <<>>
            THEN LET first == preferred_categories(<<>>, filtered, prefs)
                 IN  IF has_affinity
                     THEN affinity_boost(first, filtered, prefs, affinity_prefs)
                     ELSE first
            ELSE <<>>
        defaulted ==
            IF has_affinity
            THEN mood_defaults(preferred, filtered, affinity_prefs)
            ELSE preferred
    IN  IF defaulted = <<>> THEN filtered ELSE defaulted

apply_mood_rules(category, filtered, prefs) ==
    LET has_affinity == DictHas(mood_preference_affinity, category)
        affinity_prefs == DictGet(mood_preference_affinity, category)
        preferred ==
            IF prefs # <<>>
            THEN LET first == preferred_categories(<<>>, filtered, prefs)
                 IN  IF has_affinity
                     THEN affinity_boost(first, filtered, prefs, affinity_prefs)
                     ELSE first
            ELSE <<>>
        defaulted ==
            IF preferred = <<>> /\ has_affinity
            THEN mood_defaults(<<>>, filtered, affinity_prefs)
            ELSE preferred
    IN  IF defaulted = <<>> THEN filtered ELSE defaulted

-----------------------------------------------------------------------------
(* _weighted_random_selection *)

FallbackHabit == "Take a 5-minute break and reflect on your day"

\* for category_habits in filtered_habits.values():
\*     all_habits.extend(category_habits)
RECURSIVE flatten(_)
flatten(d) == IF d = <<>> THEN <<>> ELSE Head(d).v \o flatten(Tail(d))

\* a variant: the method draws with a choice function the stub does not
\* replace
choice_unpatched(bound, all_habits) ==
    {all_habits[i] : i \in 1..Len(all_habits)}

\* random.choice(all_habits), as the library has it or replaced by a stub that
\* returns the first element: the values it can return
choice(bound, all_habits) ==
    IF bound = "first"
    THEN {all_habits[1]}
    ELSE {all_habits[i] : i \in 1..Len(all_habits)}

\* the values _weighted_random_selection can return when random.choice is
\* bound to `bound`
weighted_selection(bound, filtered) ==
    LET all_habits == flatten(filtered) IN
    IF all_habits = <<>>
    THEN {FallbackHabit}
    ELSE choice(bound, all_habits)

\* the values random.choice can return
weighted_random_selection(filtered) ==
    LET all_habits == flatten(filtered) IN
    IF all_habits = <<>>
    THEN {FallbackHabit}
    ELSE {all_habits[i] : i \in 1..Len(all_habits)}

-----------------------------------------------------------------------------
(* _generate_reasoning.  A formatted string is the sequence of its pieces: *)
(* a piece is literal text of the source or an interpolated string.        *)

Text(lit) == [lit |-> lit, s |-> Lit("")]
Interp(s) == [lit |-> "", s |-> s]

\* sep.join(items), items being sequences of pieces
RECURSIVE join(_, _)
join(sep, items) ==
    IF items = <<>> THEN <<>>
    ELSE IF Len(items) = 1 THEN Head(items)
    ELSE Head(items) \o <<Text(sep)>> \o join(sep, Tail(items))

MoodSentenceTail(category) ==
    CASE category = "stressed_anxious" ->
            ", activities that promote relaxation and mindfulness can help reduce stress."
      [] category = "tired_fatigued" ->
            ", light physical activity can actually boost your energy levels."
      [] category = "happy_excited" ->
            ", channeling that positive energy into productive or creative tasks can be fulfilling."
      [] category = "understimulated" ->
            ", engaging in stimulating activities can help increase your motivation."
      [] category = "negative" ->
            ", mindful activities and social connection can help improve your mood."

\* self.preference_display_names.get(p, p.capitalize())
display_pref(p) == DictGetOr(preference_display_names, p, capitalize(p))

\* a variant: the mood sentence carries the lower-cased mood
generate_reasoning_lowered_mood(m, category, t, prefs, habit) ==
    LET mood_reasons ==
            IF category \in {"stressed_anxious", "tired_fatigued",
                             "happy_excited", "understimulated", "negative"}
            THEN << <<Text("When you're feeling "), Interp(lower(m)),
                      Text(MoodSentenceTail(category))>> >>
            ELSE <<>>
        screen_reasons ==
            IF t > 240
            THEN << <<Text("Your screen time is quite high today, so taking a break from devices could be beneficial.")>> >>
            ELSE IF t > 120
            THEN << <<Text("You've had a moderate amount of screen time today, so a short break might be refreshing.")>> >>
            ELSE <<>>
        display_prefs == [i \in 1..Len(prefs) |-> <<Interp(display_pref(prefs[i]))>>]
        pref_reasons ==
            IF prefs # <<>>
            THEN << <<Text("This suggestion aligns with your preference for ")>>
                    \o join(" and ", display_prefs) \o <<Text(".")>> >>
            ELSE <<>>
    IN  join(" ", mood_reasons \o screen_reasons \o pref_reasons)

generate_reasoning(m, category, t, prefs, habit) ==
    LET mood_reasons ==
            IF category \in {"stressed_anxious", "tired_fatigued",
                             "happy_excited", "understimulated", "negative"}
            THEN << <<Text("When you're feeling "), Interp(m),
                      Text(MoodSentenceTail(category))>> >>
            ELSE <<>>
        screen_reasons ==
            IF t > 240
            THEN << <<Text("Your screen time is quite high today, so taking a break from devices could be beneficial.")>> >>
            ELSE IF t > 120
            THEN << <<Text("You've had a moderate amount of screen time today, so a short break might be refreshing.")>> >>
            ELSE <<>>
        display_prefs == [i \in 1..Len(prefs) |-> <<Interp(display_pref(prefs[i]))>>]
        pref_reasons ==
            IF prefs # <<>>
            THEN << <<Text("This suggestion aligns with your preference for ")>>
                    \o join(" and ", display_prefs) \o <<Text(".")>> >>
            ELSE <<>>
    IN  join(" ", mood_reasons \o screen_reasons \o pref_reasons)

-----------------------------------------------------------------------------
(* Inputs *)

\* longest preference list of a request
MaxPrefs == 2

SeqsUpTo(S, n) == UNION {[1..k -> S] : k \in 0..n}

ToSet(list) == {list[i] : i \in 1..Len(list)}

MoodCategoryNames == {mood_categories[i].k : i \in 1..Len(mood_categories)}

ValidMoodTexts == {valid_moods[i].text : i \in 1..Len(valid_moods)}

\* every valid mood in lower case, capitalised and in upper case, and three
\* strings outside the vocabulary
Moods ==
    UNION {{Lit(t), Title(t), Upper(t)} : t \in ValidMoodTexts}
    \cup {Title("invalid"), Title("neutral"), Lit("")}

ScreenTimes ==
    {IntVal(n) : n \in {-1, 0, 120, 240, 310}} \cup {StrVal}

\* the display names, a canonical key, and two strings that name no category
PrefStrings ==
    {preference_display_names[i].v : i \in 1..Len(preference_display_names)}
    \cup {Lit("physical_activity"), Title("general"), Title("n")}

PrefLists == SeqsUpTo(PrefStrings, MaxPrefs)

\* one mood of each category and of each spelling, and the strings outside
\* the vocabulary
SampleMoods ==
    {Title("stressed"), Title("tired"), Title("happy"), Upper("bored"),
     Lit("sad"), Title("invalid"), Title("neutral"), Lit("")}

\* the screen times of the calls with preferences: one that is refused, one
\* of each tier with the two tier boundaries, and one that is no number
SampleScreenTimes == ScreenTimes \ {IntVal(0)}

\* the calls of get_habit_suggestion: every mood without preferences, and
\* the sample moods with every preference list
Requests ==
    (Moods \X ScreenTimes \X {<<>>})
    \cup (SampleMoods \X SampleScreenTimes \X PrefLists)

\* every spelling of a key or display name: as written, in lower case, in
\* upper case, capitalised
Spellings(s) == {s, lower(s), Upper(s.text), Title(s.text)}

\* preference lists handed to _normalize_preferences on its own
NormalizeInputs ==
    SeqsUpTo(UNION {Spellings(preference_display_names[i].k)
                    \cup Spellings(preference_display_names[i].v) :
                        i \in 1..Len(preference_display_names)}
             \cup {Title("general"), Lit("general"), Title("n")},
             MaxPrefs)

\* preference lists as _apply_mood_rules can be handed them
NormalizedPrefLists ==
    SeqsUpTo(ToSet(valid_preferences) \cup {Title("general")}, MaxPrefs)

-----------------------------------------------------------------------------
(* State *)

NoCall == [name |-> "", args |-> <<>>, ret |-> <<>>]

\* the frame of a second caller that has made no call
NoFrame ==
    [pc |-> "idle", mood |-> Lit(""), screen_time_minutes |-> IntVal(0),
     preferences |-> <<>>, normalized_preferences |-> <<>>,
     mood_category |-> None, screened_habits |-> <<>>,
     filtered_habits |-> <<>>, selected_habit |-> None, result |-> <<>>,
     raised |-> <<>>]

\* HabitRecommender() is constructed and no call has been made
Constructed ==
    /\ habits = InitialHabits
    /\ pc = "idle"
    /\ mood = Lit("")
    /\ screen_time_minutes = IntVal(0)
    /\ preferences = <<>>
    /\ normalized_preferences = <<>>
    /\ mood_category = None
    /\ screened_habits = <<>>
    /\ filtered_habits = <<>>
    /\ selected_habit = None
    /\ result = <<>>
    /\ raised = <<>>
    /\ ran = <<>>
    /\ fn = NoCall
    /\ store_calls = <<>>
    /\ other = NoFrame

\* recommender = HabitRecommender(): no persistence service, random.choice as
\* the library has it
Init ==
    /\ Constructed
    /\ firebase_service = None
    /\ FIREBASE_AVAILABLE = TRUE
    /\ random_choice = "random.choice"

\* no call is under way and no frame of an earlier call is left
Quiet == pc = "idle" /\ fn.name = ""

\* the frame of a call that has not started
ClearCall ==
    /\ mood' = Lit("")
    /\ screen_time_minutes' = IntVal(0)
    /\ preferences' = <<>>
    /\ normalized_preferences' = <<>>
    /\ mood_category' = None
    /\ screened_habits' = <<>>
    /\ filtered_habits' = <<>>
    /\ selected_habit' = None
    /\ result' = <<>>
    /\ raised' = <<>>
    /\ ran' = <<>>

-----------------------------------------------------------------------------
(* get_habit_suggestion, statement by statement *)

\* a variant: the inputs are validated after the filters have run
pipeline_validating_late ==
    <<"normalize", "classify", "screen_time", "mood_rules", "validate",
      "select", "reasoning">>

\* the statements of lines 148-171, in the order of the source
pipeline ==
    <<"validate", "normalize", "classify", "screen_time", "mood_rules",
      "select", "reasoning">>

\* where control is once `stage` is done: the next statement, or the return
After(stage) ==
    LET i == CHOOSE j \in 1..Len(pipeline) : pipeline[j] = stage IN
    IF i = Len(pipeline) THEN "returned" ELSE pipeline[i + 1]

\* the call is made
Call(m, t, prefs) ==
    /\ Quiet
    /\ pc' = pipeline[1]
    /\ mood' = m
    /\ screen_time_minutes' = t
    /\ preferences' = prefs
    /\ normalized_preferences' = <<>>
    /\ mood_category' = None
    /\ screened_habits' = <<>>
    /\ filtered_habits' = <<>>
    /\ selected_habit' = None
    /\ result' = <<>>
    /\ raised' = <<>>
    /\ ran' = <<>>
    /\ fn' = NoCall
    /\ UNCHANGED habits
    /\ UNCHANGED <<surroundings, store_calls>>

\* line 149
Validate ==
    /\ pc = "validate"
    /\ LET e == validate_inputs(mood, screen_time_minutes, preferences) IN
        /\ raised' = e
        /\ pc' = IF e = <<>> THEN After("validate") ELSE "raised"
    /\ ran' = Append(ran, "_validate_inputs")
    /\ UNCHANGED <<habits, mood, screen_time_minutes, preferences,
                   normalized_preferences, mood_category, screened_habits,
                   filtered_habits, selected_habit, result, fn>>
    /\ UNCHANGED <<surroundings, store_calls>>

\* line 152
Normalize ==
    /\ pc = "normalize"
    /\ normalized_preferences' = normalize_preferences(preferences)
    /\ pc' = After("normalize")
    /\ ran' = Append(ran, "_normalize_preferences")
    /\ UNCHANGED <<habits, mood, screen_time_minutes, preferences,
                   mood_category, screened_habits, filtered_habits,
                   selected_habit, result, raised, fn>>
    /\ UNCHANGED <<surroundings, store_calls>>

\* lines 155-159
Classify ==
    /\ pc = "classify"
    /\ mood_category' = classify(mood)
    /\ pc' = After("classify")
    /\ UNCHANGED <<habits, mood, screen_time_minutes, preferences,
                   normalized_preferences, screened_habits, filtered_habits,
                   selected_habit, result, raised, ran, fn>>
    /\ UNCHANGED <<surroundings, store_calls>>

\* line 162
ScreenTimeRules ==
    /\ pc = "screen_time"
    /\ LET r == apply_screen_time_rules(habits, screen_time_minutes.val) IN
        /\ habits' = r.self_habits
        /\ screened_habits' = r.ret
    /\ pc' = After("screen_time")
    /\ ran' = Append(ran, "_apply_screen_time_rules")
    /\ UNCHANGED <<mood, screen_time_minutes, preferences,
                   normalized_preferences, mood_category, filtered_habits,
                   selected_habit, result, raised, fn>>
    /\ UNCHANGED <<surroundings, store_calls>>

\* line 165
MoodRules ==
    /\ pc = "mood_rules"
    /\ filtered_habits' =
           apply_mood_rules(mood_category, screened_habits,
                            normalized_preferences)
    /\ pc' = After("mood_rules")
    /\ ran' = Append(ran, "_apply_mood_rules")
    /\ UNCHANGED <<habits, mood, screen_time_minutes, preferences,
                   normalized_preferences, mood_category, screened_habits,
                   selected_habit, result, raised, fn>>
    /\ UNCHANGED <<surroundings, store_calls>>

\* line 168
Select ==
    /\ pc = "select"
    /\ \E h \in (IF random_choice = "random.choice"
                THEN weighted_random_selection(filtered_habits)
                ELSE weighted_selection(random_choice, filtered_habits)) :
           selected_habit' = h
    /\ pc' = After("select")
    /\ ran' = Append(ran, "_weighted_random_selection")
    /\ UNCHANGED <<habits, mood, screen_time_minutes, preferences,
                   normalized_preferences, mood_category, screened_habits,
                   filtered_habits, result, raised, fn>>
    /\ UNCHANGED <<surroundings, store_calls>>

\* lines 184-187: the branch taken with a persistence service is a pass, so
\* store_habit_suggestion receives no call and the result gets no new key
store_in_firebase(service, available, calls, r) ==
    IF service # None /\ available
    THEN [calls |-> calls, result |-> r]
    ELSE [calls |-> calls, result |-> r]

\* lines 171-189: the reasoning, the result dictionary, the branch of line
\* 185, the return
Return ==
    /\ pc = "reasoning"
    /\ LET r == [habit |-> selected_habit,
                 mood |-> mood,
                 mood_category |-> mood_category,
                 screen_time_minutes |-> screen_time_minutes,
                 preferences |-> preferences,
                 timestamp |-> "datetime.now().isoformat()",
                 reasoning |->
                     generate_reasoning(mood, mood_category,
                         screen_time_minutes.val, normalized_preferences,
                         selected_habit)]
           s == store_in_firebase(firebase_service, FIREBASE_AVAILABLE,
                                  store_calls, r)
       IN  /\ store_calls' = s.calls
           /\ result' = <<s.result>>
    /\ pc' = After("reasoning")
    /\ ran' = Append(ran, "_generate_reasoning")
    /\ UNCHANGED <<habits, mood, screen_time_minutes, preferences,
                   normalized_preferences, mood_category, screened_habits,
                   filtered_habits, selected_habit, raised, fn>>
    /\ UNCHANGED surroundings

\* the caller has the result or the exception; the frame of the call is gone
\* and self.habits is all that stays
Done ==
    /\ pc \in {"returned", "raised"} \/ (pc = "idle" /\ fn.name # "")
    /\ ~(pc = "returned" /\ fn.name = "to_json" /\ fn.ret = <<>>)
    /\ pc' = "idle"
    /\ fn' = NoCall
    /\ ClearCall
    /\ UNCHANGED habits
    /\ UNCHANGED <<surroundings, store_calls>>

-----------------------------------------------------------------------------
(* The helper methods called on their own, between calls *)

CallNormalize(prefs) ==
    /\ Quiet
    /\ fn' = [name |-> "_normalize_preferences", args |-> <<prefs>>,
              ret |-> normalize_preferences(prefs)]
    /\ pc' = "idle"
    /\ ClearCall
    /\ UNCHANGED habits
    /\ UNCHANGED <<surroundings, store_calls>>

\* the list a call of _normalize_preferences returned is normalized again
CallNormalizeAgain ==
    /\ pc = "idle"
    /\ fn.name = "_normalize_preferences"
    /\ fn' = [name |-> "_normalize_preferences twice", args |-> <<fn.ret>>,
              ret |-> normalize_preferences(fn.ret)]
    /\ pc' = "idle"
    /\ ClearCall
    /\ UNCHANGED habits
    /\ UNCHANGED <<surroundings, store_calls>>

CallScreenTimeRules(t) ==
    /\ Quiet
    /\ LET r == apply_screen_time_rules(habits, t) IN
        /\ habits' = r.self_habits
        /\ fn' = [name |-> "_apply_screen_time_rules", args |-> <<t>>,
                  ret |-> r.ret]
    /\ pc' = "idle"
    /\ ClearCall
    /\ UNCHANGED <<surroundings, store_calls>>

\* filtered is a dictionary _apply_screen_time_rules returns
CallMoodRules(category, t, prefs) ==
    /\ Quiet
    /\ LET filtered == apply_screen_time_rules(habits, t).ret IN
       fn' = [name |-> "_apply_mood_rules",
              args |-> <<category, filtered, prefs>>,
              ret |-> apply_mood_rules(category, filtered, prefs)]
    /\ pc' = "idle"
    /\ ClearCall
    /\ UNCHANGED habits
    /\ UNCHANGED <<surroundings, store_calls>>

-----------------------------------------------------------------------------

\* prefs is a list _normalize_preferences returns
CallGenerateReasoning(m, category, t, prefs, habit) ==
    /\ Quiet
    /\ fn' = [name |-> "_generate_reasoning",
              args |-> <<m, category, t, prefs, habit>>,
              ret |-> generate_reasoning(m, category, t, prefs, habit)]
    /\ pc' = "idle"
    /\ ClearCall
    /\ UNCHANGED <<habits, surroundings, store_calls>>

DirectTimes == {-1, 0, 120, 121, 240, 241, 310}

Next ==
    \/ Quiet /\ \E r \in Requests : Call(r[1], r[2], r[3])
    \/ Validate
    \/ Normalize
    \/ Classify
    \/ ScreenTimeRules
    \/ MoodRules
    \/ Select
    \/ Return
    \/ Done
    \/ Quiet /\ \E prefs \in NormalizeInputs : CallNormalize(prefs)
    \/ CallNormalizeAgain
    \/ Quiet /\ \E t \in DirectTimes : CallScreenTimeRules(t)
    \/ Quiet /\ \E category \in MoodCategoryNames \cup {None},
                    t \in DirectTimes, prefs \in NormalizedPrefLists :
                    CallMoodRules(category, t, prefs)
    \/ Quiet /\ \E category \in MoodCategoryNames \cup {None},
                    t \in DirectTimes, prefs \in NormalizedPrefLists :
                    CallGenerateReasoning(Str("sad", {1, 3}), category, t,
                                          prefs, "Call a family member")

Spec == Init /\ [][Next]_vars

-----------------------------------------------------------------------------
(* to_json.  A Python value is a record [type, val]; a JSON text is the    *)
(* tree of its values, [json, val], in JSON's own types.                   *)

PyStr(s) == [type |-> "str", val |-> s]
PyNone == [type |-> "NoneType", val |-> 0]
PyList(items) == [type |-> "list", val |-> items]
PyDict(items) == [type |-> "dict", val |-> items]

\* the result dictionary of lines 174-182, key by key in the order written
result_dict(r) ==
    PyDict(<<
        [k |-> "habit", v |-> PyStr(r.habit)],
        [k |-> "mood", v |-> PyStr(r.mood)],
        [k |-> "mood_category",
         v |-> IF r.mood_category = None THEN PyNone
               ELSE PyStr(r.mood_category)],
        [k |-> "screen_time_minutes", v |-> r.screen_time_minutes],
        [k |-> "preferences",
         v |-> PyList([i \in 1..Len(r.preferences) |->
                          PyStr(r.preferences[i])])],
        [k |-> "timestamp", v |-> PyStr(r.timestamp)],
        [k |-> "reasoning", v |-> PyStr(r.reasoning)] >>)

\* json.dumps: str to string, int to number, None to null, list to array,
\* dict to object with its items in order
RECURSIVE json_dumps(_)
json_dumps(x) ==
    CASE x.type = "str" -> [json |-> "string", val |-> x.val]
      [] x.type = "int" -> [json |-> "number", val |-> x.val]
      [] x.type = "NoneType" -> [json |-> "null", val |-> 0]
      [] x.type = "list" ->
            [json |-> "array",
             val |-> [i \in 1..Len(x.val) |-> json_dumps(x.val[i])]]
      [] x.type = "dict" ->
            [json |-> "object",
             val |-> [i \in 1..Len(x.val) |->
                        [k |-> x.val[i].k, v |-> json_dumps(x.val[i].v)]]]

\* json.loads: string to str, number to int, null to None, array to list,
\* object to dict
RECURSIVE json_loads(_)
json_loads(j) ==
    CASE j.json = "string" -> PyStr(j.val)
      [] j.json = "number" -> IntVal(j.val)
      [] j.json = "null" -> PyNone
      [] j.json = "array" ->
            PyList([i \in 1..Len(j.val) |-> json_loads(j.val[i])])
      [] j.json = "object" ->
            PyDict([i \in 1..Len(j.val) |->
                      [k |-> j.val[i].k, v |-> json_loads(j.val[i].v)]])

\* line 346: to_json calls get_habit_suggestion with its own arguments
ToJson(m, t, prefs) ==
    /\ Quiet
    /\ pc' = pipeline[1]
    /\ mood' = m
    /\ screen_time_minutes' = t
    /\ preferences' = prefs
    /\ normalized_preferences' = <<>>
    /\ mood_category' = None
    /\ screened_habits' = <<>>
    /\ filtered_habits' = <<>>
    /\ selected_habit' = None
    /\ result' = <<>>
    /\ raised' = <<>>
    /\ ran' = <<>>
    /\ fn' = [name |-> "to_json", args |-> <<m, t, prefs>>, ret |-> <<>>]
    /\ UNCHANGED <<habits, surroundings, store_calls>>

\* line 347: return json.dumps(result, indent=2)
ToJsonReturn ==
    /\ pc = "returned"
    /\ fn.name = "to_json"
    /\ fn.ret = <<>>
    /\ fn' = [fn EXCEPT !.ret = <<json_dumps(result_dict(result[1]))>>]
    /\ UNCHANGED <<habits, pc, mood, screen_time_minutes, preferences,
                   normalized_preferences, mood_category, screened_habits,
                   filtered_habits, selected_habit, result, raised, ran,
                   surroundings, store_calls>>

\* the arguments to_json is called with
ToJsonRequests ==
    {Title("happy"), Upper("bored"), Title("invalid")}
        \X {IntVal(100), IntVal(310), IntVal(-1)}
        \X {<<>>, <<Title("productivity")>>, <<Title("general")>>,
            <<Title("productivity"), Str("digital wellbeing", {1, 9})>>}

\* str.lower() on a value that is no str (lines 203 and 231)
AttributeError(v) ==
    [exc |-> "AttributeError", head |-> " object has no attribute 'lower'",
     value |-> Lit(v.type), valid |-> <<>>]

\* iteration over, or `in` on, a value that is no container (api.py line
\* 31, habit_recommender.py line 230)
TypeError(v) ==
    [exc |-> "TypeError", head |-> " object is not iterable",
     value |-> Lit(v.type), valid |-> <<>>]

\* the items `for pref in preferences` yields: those of a list, none for
\* the empty str
items_of(v) == IF v.type = "list" THEN v.val ELSE <<>>

\* _validate_inputs (lines 203-214) on arguments of any type: <<>> or the
\* exception raised
validate_inputs_of_any_type(mood_v, t_v, prefs_v) ==
    IF mood_v.type # "str"
    THEN <<AttributeError(mood_v)>>
    ELSE IF ~InList(lower(mood_v.val), valid_moods)
    THEN <<InvalidMoodError(mood_v.val)>>
    ELSE IF ~IsNumber(t_v) \/ t_v.val < 0
    THEN <<InvalidScreenTimeError>>
    ELSE IF prefs_v.type \notin {"list", "str"}
    THEN <<TypeError(prefs_v)>>
    ELSE LET items == items_of(prefs_v)
             no_str == {i \in 1..Len(items) : items[i].type # "str"}
         IN  IF no_str # {}
             THEN <<AttributeError(
                        items[CHOOSE i \in no_str : \A j \in no_str : i <= j])>>
             ELSE validate_inputs(mood_v.val, t_v,
                                  [i \in 1..Len(items) |-> items[i].val])

\* get_habit_suggestion (lines 148-189) as one call on arguments of any
\* type: the outcomes it can have, each the exception raised or the result
\* returned, with self.habits after the call
get_habit_suggestion(mood_v, t_v, prefs_v, self_habits) ==
    LET e == validate_inputs_of_any_type(mood_v, t_v, prefs_v) IN
    IF e # <<>>
    THEN {[raised |-> e, result |-> <<>>, self_habits |-> self_habits]}
    ELSE
    LET strings == [i \in 1..Len(items_of(prefs_v)) |-> items_of(prefs_v)[i].val]
        normalized == normalize_preferences(strings)
        category == classify(mood_v.val)
        screened == apply_screen_time_rules(self_habits, t_v.val)
        pool == apply_mood_rules(category, screened.ret, normalized)
    IN  {[raised |-> <<>>,
          result |-> <<PyDict(<<
              [k |-> "habit", v |-> PyStr(h)],
              [k |-> "mood", v |-> mood_v],
              [k |-> "mood_category",
               v |-> IF category = None THEN PyNone ELSE PyStr(category)],
              [k |-> "screen_time_minutes", v |-> t_v],
              [k |-> "preferences", v |-> prefs_v],
              [k |-> "timestamp", v |-> PyStr("datetime.now().isoformat()")],
              [k |-> "reasoning",
               v |-> PyStr(generate_reasoning(mood_v.val, category, t_v.val,
                                              normalized, h))] >>)>>,
          self_habits |-> screened.self_habits] :
            h \in weighted_random_selection(pool)}

\* the body of a request: no JSON at all (get_json gives None), or a JSON
\* text
NoJson == [json |-> "none", val |-> 0]

\* request.get_json()
get_json(body) == IF body.json = "none" THEN PyNone ELSE json_loads(body)

required_fields == <<"mood", "screen_time_minutes", "preferences">>

\* `field not in data` for a dict or a list of no strings
lacks(data, field) ==
    IF data.type = "dict" THEN ~DictHas(data.val, field) ELSE TRUE

\* jsonify(value), status
response(value, status) == [status |-> status, body |-> json_dumps(value)]

error_body(message) == PyDict(<<[k |-> "error", v |-> PyStr(message)]>>)

\* recommend() of api.py (lines 22-63): the responses it can give, each with
\* recommender.habits after the request
recommend(body, self_habits) ==
    LET data == get_json(body) IN
    IF data.type \notin {"dict", "list"}
    THEN {[response |->
              response(error_body(<<"An unexpected error occurred: ",
                                    TypeError(data)>>), 500),
           self_habits |-> self_habits]}
    ELSE
    LET missing == {i \in 1..Len(required_fields) :
                        lacks(data, required_fields[i])}
    IN
    IF missing # {}
    THEN {[response |->
              response(error_body(<<"Missing required field: ",
                  required_fields[CHOOSE i \in missing :
                                      \A j \in missing : i <= j]>>), 400),
           self_habits |-> self_habits]}
    ELSE
    LET mood_v == DictGet(data.val, "mood")
        screen_time == DictGet(data.val, "screen_time_minutes")
        prefs_v == DictGet(data.val, "preferences")
    IN  {[response |->
            IF o.raised = <<>>
            THEN response(PyDict(<<
                    [k |-> "mood", v |-> mood_v],
                    [k |-> "screen_time_minutes", v |-> screen_time],
                    [k |-> "preferences", v |-> prefs_v],
                    [k |-> "suggested_habit", v |-> o.result[1]] >>), 200)
            ELSE IF o.raised[1].exc = "ValueError"
            THEN response(error_body(<<"", o.raised[1]>>), 400)
            ELSE response(error_body(<<"An unexpected error occurred: ",
                                       o.raised[1]>>), 500),
          self_habits |-> o.self_habits] :
            o \in get_habit_suggestion(mood_v, screen_time, prefs_v,
                                       self_habits)}

\* a POST /recommend is served
Recommend(body) ==
    /\ Quiet
    /\ \E r \in recommend(body, habits) :
        /\ fn' = [name |-> "POST /recommend", args |-> <<body>>,
                  ret |-> <<r.response>>]
        /\ habits' = r.self_habits
    /\ pc' = "idle"
    /\ ClearCall
    /\ UNCHANGED <<surroundings, store_calls>>

JString(s) == [json |-> "string", val |-> s]
JNumber(n) == [json |-> "number", val |-> n]
JNull == [json |-> "null", val |-> 0]
JArray(items) == [json |-> "array", val |-> items]
JObject(items) == [json |-> "object", val |-> items]

\* the values a request gives a field, of the right type and of others
MoodValues ==
    <<JString(Title("happy")), JString(Upper("sad")),
      JString(Title("invalid")), JNumber(5), JNull>>

ScreenTimeValues ==
    <<JNumber(100), JNumber(310), JNumber(-10), JString(Lit("abc")), JNull>>

PreferenceValues ==
    <<JArray(<<>>), JArray(<<JString(Title("relaxation"))>>),
      JArray(<<JString(Title("general"))>>),
      JArray(<<JString(Title("nature")), JNumber(5)>>),
      JNumber(5), JString(Lit("")), JNull>>

\* the item of a field in a JSON object: none when the request leaves the
\* field out (i = 0)
Field(name, values, i) ==
    IF i = 0 THEN <<>> ELSE <<[k |-> name, v |-> values[i]]>>

\* the JSON object with the fields chosen, in this order
RequestObject(i, j, k) ==
    JObject(Field("mood", MoodValues, i)
                \o Field("screen_time_minutes", ScreenTimeValues, j)
                \o Field("preferences", PreferenceValues, k))

\* the bodies that are no JSON object
OtherBodies == <<NoJson, JNull, JArray(<<>>)>>

NextApi ==
    \/ Quiet /\ \E r \in ToJsonRequests : ToJson(r[1], r[2], r[3])
    \/ Validate
    \/ Normalize
    \/ Classify
    \/ ScreenTimeRules
    \/ MoodRules
    \/ Select
    \/ Return
    \/ ToJsonReturn
    \/ Done
    \/ Quiet /\ \E i \in 0..Len(MoodValues), j \in 0..Len(ScreenTimeValues),
                    k \in 0..Len(PreferenceValues) :
                    Recommend(RequestObject(i, j, k))
    \/ Quiet /\ \E i \in 1..Len(OtherBodies) : Recommend(OtherBodies[i])

\* the module-level recommender of api.py and its callers
SpecApi == Init /\ [][NextApi]_vars

-----------------------------------------------------------------------------

(* A recommender constructed with a persistence service *)

\* the arguments of the calls made on a recommender with a service
ServiceRequests ==
    {Title("happy"), Lit("sad"), Title("invalid")}
        \X {IntVal(120), IntVal(310), IntVal(-1)}
        \X {<<>>, <<Lit("productivity")>>, <<Title("general")>>}

\* HabitRecommender(firebase_service=service); the import of lines 7-11
\* succeeded or failed
InitService ==
    /\ Constructed
    /\ firebase_service = "FirebaseService"
    /\ FIREBASE_AVAILABLE \in BOOLEAN
    /\ random_choice = "random.choice"

NextService ==
    \/ Quiet /\ \E r \in ServiceRequests : Call(r[1], r[2], r[3])
    \/ Validate
    \/ Normalize
    \/ Classify
    \/ ScreenTimeRules
    \/ MoodRules
    \/ Select
    \/ Return
    \/ Done

SpecService == InitService /\ [][NextService]_vars

-----------------------------------------------------------------------------

(* A second caller of the same recommender.  Its call runs the same        *)
(* statements on its own frame, the record `other`, and on self.habits.    *)

OtherCall(m, t, prefs) ==
    /\ other.pc = "idle"
    /\ other' = [NoFrame EXCEPT !.pc = pipeline[1], !.mood = m,
                                !.screen_time_minutes = t,
                                !.preferences = prefs]
    /\ UNCHANGED <<habits, pc, mood, screen_time_minutes, preferences,
                   normalized_preferences, mood_category, screened_habits,
                   filtered_habits, selected_habit, result, raised, ran, fn,
                   firebase_service, FIREBASE_AVAILABLE, store_calls,
                   random_choice>>

\* line 149
OtherValidate ==
    /\ other.pc = "validate"
    /\ LET e == validate_inputs(other.mood, other.screen_time_minutes,
                                other.preferences) IN
       other' = [other EXCEPT
                    !.raised = e,
                    !.pc = IF e = <<>> THEN After("validate") ELSE "raised"]
    /\ UNCHANGED <<habits, pc, mood, screen_time_minutes, preferences,
                   normalized_preferences, mood_category, screened_habits,
                   filtered_habits, selected_habit, result, raised, ran, fn,
                   firebase_service, FIREBASE_AVAILABLE, store_calls,
                   random_choice>>

\* line 152
OtherNormalize ==
    /\ other.pc = "normalize"
    /\ other' = [other EXCEPT
                    !.normalized_preferences =
                        normalize_preferences(other.preferences),
                    !.pc = After("normalize")]
    /\ UNCHANGED <<habits, pc, mood, screen_time_minutes, preferences,
                   normalized_preferences, mood_category, screened_habits,
                   filtered_habits, selected_habit, result, raised, ran, fn,
                   firebase_service, FIREBASE_AVAILABLE, store_calls,
                   random_choice>>

\* lines 155-159
OtherClassify ==
    /\ other.pc = "classify"
    /\ other' = [other EXCEPT !.mood_category = classify(other.mood),
                              !.pc = After("classify")]
    /\ UNCHANGED <<habits, pc, mood, screen_time_minutes, preferences,
                   normalized_preferences, mood_category, screened_habits,
                   filtered_habits, selected_habit, result, raised, ran, fn,
                   firebase_service, FIREBASE_AVAILABLE, store_calls,
                   random_choice>>

\* line 162
OtherScreenTimeRules ==
    /\ other.pc = "screen_time"
    /\ LET r == apply_screen_time_rules(habits,
                                        other.screen_time_minutes.val) IN
        /\ habits' = r.self_habits
        /\ other' = [other EXCEPT !.screened_habits = r.ret,
                                  !.pc = After("screen_time")]
    /\ UNCHANGED <<pc, mood, screen_time_minutes, preferences,
                   normalized_preferences, mood_category, screened_habits,
                   filtered_habits, selected_habit, result, raised, ran, fn,
                   firebase_service, FIREBASE_AVAILABLE, store_calls,
                   random_choice>>

\* line 165
OtherMoodRules ==
    /\ other.pc = "mood_rules"
    /\ other' = [other EXCEPT
                    !.filtered_habits =
                        apply_mood_rules(other.mood_category,
                                         other.screened_habits,
                                         other.normalized_preferences),
                    !.pc = After("mood_rules")]
    /\ UNCHANGED <<habits, pc, mood, screen_time_minutes, preferences,
                   normalized_preferences, mood_category, screened_habits,
                   filtered_habits, selected_habit, result, raised, ran, fn,
                   firebase_service, FIREBASE_AVAILABLE, store_calls,
                   random_choice>>

\* line 168
OtherSelect ==
    /\ other.pc = "select"
    /\ \E h \in (IF random_choice = "random.choice"
                 THEN weighted_random_selection(other.filtered_habits)
                 ELSE weighted_selection(random_choice,
                                         other.filtered_habits)) :
           other' = [other EXCEPT !.selected_habit = h,
                                  !.pc = After("select")]
    /\ UNCHANGED <<habits, pc, mood, screen_time_minutes, preferences,
                   normalized_preferences, mood_category, screened_habits,
                   filtered_habits, selected_habit, result, raised, ran, fn,
                   firebase_service, FIREBASE_AVAILABLE, store_calls,
                   random_choice>>

\* lines 171-189
OtherReturn ==
    /\ other.pc = "reasoning"
    /\ LET r == [habit |-> other.selected_habit,
                 mood |-> other.mood,
                 mood_category |-> other.mood_category,
                 screen_time_minutes |-> other.screen_time_minutes,
                 preferences |-> other.preferences,
                 timestamp |-> "datetime.now().isoformat()",
                 reasoning |->
                     generate_reasoning(other.mood, other.mood_category,
                         other.screen_time_minutes.val,
                         other.normalized_preferences, other.selected_habit)]
           s == store_in_firebase(firebase_service, FIREBASE_AVAILABLE,
                                  store_calls, r)
       IN  /\ store_calls' = s.calls
           /\ other' = [other EXCEPT !.result = <<s.result>>,
                                     !.pc = After("reasoning")]
    /\ UNCHANGED <<habits, pc, mood, screen_time_minutes, preferences,
                   normalized_preferences, mood_category, screened_habits,
                   filtered_habits, selected_habit, result, raised, ran, fn,
                   firebase_service, FIREBASE_AVAILABLE, random_choice>>

\* the second caller has its result or its exception
OtherDone ==
    /\ other.pc \in {"returned", "raised"}
    /\ other' = NoFrame
    /\ UNCHANGED <<habits, pc, mood, screen_time_minutes, preferences,
                   normalized_preferences, mood_category, screened_habits,
                   filtered_habits, selected_habit, result, raised, ran, fn,
                   firebase_service, FIREBASE_AVAILABLE, store_calls,
                   random_choice>>

\* the requests two callers send at the same time
ConcurrentRequests ==
    { <<Title("happy"), IntVal(150),
        <<Title("productivity"), Title("creative")>> >>,
      <<Title("stressed"), IntVal(310),
        <<Title("nature"), Str("digital wellbeing", {1, 9})>> >>,
      <<Lit("sad"), IntVal(310), <<>> >>,
      <<Title("invalid"), IntVal(0), <<>> >>,
      <<Upper("tired"), IntVal(-1), <<Title("general")>> >> }

\* random.choice is the library's, or a test has replaced it by a stub that
\* returns the first element
InitConcurrent ==
    /\ Constructed
    /\ firebase_service = None
    /\ FIREBASE_AVAILABLE = TRUE
    /\ random_choice \in {"random.choice", "first"}

NextConcurrent ==
    \/ Quiet /\ \E r \in ConcurrentRequests : Call(r[1], r[2], r[3])
    \/ Validate
    \/ Normalize
    \/ Classify
    \/ ScreenTimeRules
    \/ MoodRules
    \/ Select
    \/ Return
    \/ Done
    \/ \E r \in ConcurrentRequests : OtherCall(r[1], r[2], r[3])
    \/ OtherValidate
    \/ OtherNormalize
    \/ OtherClassify
    \/ OtherScreenTimeRules
    \/ OtherMoodRules
    \/ OtherSelect
    \/ OtherReturn
    \/ OtherDone

SpecConcurrent == InitConcurrent /\ [][NextConcurrent]_vars

-----------------------------------------------------------------------------

(* What the claims speak of, stated without the methods under check *)

\* the mood is a word of the vocabulary, in any letter case
IsValidMood(m) == m.text \in ValidMoodTexts

\* the screen time is a number >= 0
IsValidScreenTime(t) == IsNumber(t) /\ t.val >= 0

\* the canonical categories a preference names, in any letter case, by key
\* or by display name
NamedCategories(p) ==
    {preference_display_names[i].k : i \in
        {j \in 1..Len(preference_display_names) :
            p.text \in {preference_display_names[j].k.text,
                        preference_display_names[j].v.text}}}

\* the entries of the preference list that name no category
Offending(prefs) == {prefs[i] : i \in {j \in 1..Len(prefs) : NamedCategories(prefs[j]) = {}}}

\* validation of the current call has run
Validated == InList("_validate_inputs", ran)

\* nothing past validation has run and nothing was produced
NothingComputed ==
    /\ normalized_preferences = <<>>
    /\ mood_category = None
    /\ screened_habits = <<>>
    /\ filtered_habits = <<>>
    /\ selected_habit = None
    /\ result = <<>>

\* C1: a call with a mood of the vocabulary, in any letter case, a screen
\* time >= 0 and no preferences never raises: it is at a statement of the
\* method until it has returned, and then there is a result.
C1_ValidMoodReturns ==
    (pc # "idle" /\ IsValidMood(mood) /\ IsValidScreenTime(screen_time_minutes)
        /\ preferences = <<>>)
    => /\ pc # "raised"
       /\ raised = <<>>
       /\ pc \in ToSet(pipeline) \cup {"returned"}
       /\ pc = "returned" <=> Len(result) = 1

C1_Witness ==
    /\ pc = "returned"
    /\ mood = Upper("exhausted")
    /\ screen_time_minutes = IntVal(0)
    /\ preferences = <<>>
    /\ Len(result) = 1

C3_NegativeScreenTimeRaises ==
    (Validated /\ IsValidMood(mood) /\ IsNumber(screen_time_minutes)
        /\ screen_time_minutes.val < 0)
    => /\ pc = "raised"
       /\ Len(raised) = 1
       /\ raised[1].head = "Screen time must be a positive number of minutes"
       /\ result = <<>>

C3_Witness ==
    /\ pc = "raised"
    /\ mood = Title("happy")
    /\ screen_time_minutes = IntVal(-1)
    /\ preferences = <<Str("relaxation", {1})>>
    /\ raised[1].head = "Screen time must be a positive number of minutes"

\* C4: with a valid mood and screen time, a preference list with an entry
\* that names no category ends the call with the invalid-preference error
\* naming such an entry, also when other entries are valid.
C4_InvalidPreferenceRaises ==
    (Validated /\ IsValidMood(mood) /\ IsValidScreenTime(screen_time_minutes)
        /\ Offending(preferences) # {})
    => /\ pc = "raised"
       /\ Len(raised) = 1
       /\ raised[1].head = "Invalid preference: "
       /\ raised[1].value \in Offending(preferences)
       /\ result = <<>>

C4_Witness ==
    /\ pc = "raised"
    /\ IsValidMood(mood)
    /\ IsValidScreenTime(screen_time_minutes)
    /\ preferences = <<Str("relaxation", {1}), Title("general")>>
    /\ raised[1].value = Title("general")

\* the request fails validation
RequestInvalid ==
    \/ ~IsValidMood(mood)
    \/ ~IsValidScreenTime(screen_time_minutes)
    \/ Offending(preferences) # {}

\* C5: a call that fails validation ends with the error right after
\* _validate_inputs: no other method of the call has run before or after
\* it, and no local past validation and no result exists.
C5_FailsFast ==
    /\ (pc # "idle" /\ RequestInvalid) =>
            /\ ran \in {<<>>, <<"_validate_inputs">>}
            /\ Validated => pc = "raised"
            /\ NothingComputed
    /\ (pc = "raised" \/ raised # <<>>) =>
            /\ pc = "raised"
            /\ Len(raised) = 1
            /\ ran = <<"_validate_inputs">>
            /\ NothingComputed

C5_Witness ==
    /\ pc = "raised"
    /\ IsValidMood(mood)
    /\ screen_time_minutes = StrVal
    /\ Len(preferences) = MaxPrefs
    /\ ran = <<"_validate_inputs">>
    /\ NothingComputed

\* C6: normalizing a list that _normalize_preferences returned gives that
\* list again, and a list of canonical keys is returned unchanged.
C6_NormalizeIdempotent ==
    /\ fn.name = "_normalize_preferences twice" => fn.ret = fn.args[1]
    /\ (fn.name = "_normalize_preferences"
            /\ ToSet(fn.args[1]) \subseteq ToSet(valid_preferences))
       => fn.ret = fn.args[1]

C6_Witness ==
    /\ fn.name = "_normalize_preferences twice"
    /\ fn.args[1] = <<Lit("physical_activity"), Title("general")>>
    /\ fn.ret = fn.args[1]

\* the number of times the screen-time filter repeats a category's list
ScreenTimeWeight(t, category) ==
    IF t > 240 /\ category.text \in {"digital_wellbeing", "physical_activity", "nature"}
    THEN 2
    ELSE IF 120 < t /\ t <= 240 /\ category.text = "digital_wellbeing"
    THEN 2
    ELSE 1

ScreenedAsClaimed(d, t) ==
    /\ Len(d) = Len(InitialHabits)
    /\ \A i \in 1..Len(d) :
        /\ d[i].k = InitialHabits[i].k
        /\ Len(d[i].v) = ScreenTimeWeight(t, d[i].k) * Len(InitialHabits[i].v)
        /\ \A j \in 1..Len(d[i].v) :
               d[i].v[j] = InitialHabits[i].v[((j - 1) % Len(InitialHabits[i].v)) + 1]

\* C7: the screen-time filter returns every category of the catalog, with
\* digital_wellbeing, physical_activity and nature twice when t > 240, with
\* digital_wellbeing twice when 120 < t <= 240, and all others once.
C7_ScreenTimeTiers ==
    /\ fn.name = "_apply_screen_time_rules" =>
            ScreenedAsClaimed(fn.ret, fn.args[1])
    /\ (pc # "idle" /\ InList("_apply_screen_time_rules", ran)) =>
            ScreenedAsClaimed(screened_habits, screen_time_minutes.val)

C7_Witness ==
    /\ fn.name = "_apply_screen_time_rules"
    /\ fn.args[1] = 240
    /\ Len(DictGet(fn.ret, Lit("digital_wellbeing"))) = 10
    /\ Len(DictGet(fn.ret, Lit("nature"))) = 5

\* C8: in every state, whatever calls were made, the catalog is the one
\* built by the constructor.
C8_CatalogUnchanged == habits = InitialHabits

C8_Witness ==
    /\ pc = "returned"
    /\ screen_time_minutes = IntVal(310)
    /\ screened_habits # InitialHabits
    /\ filtered_habits # InitialHabits
    /\ habits = InitialHabits

\* the habits of the categories the preference list names
PreferredHabits(prefs) ==
    UNION {ToSet(DictGet(InitialHabits, c)) :
            c \in UNION {NamedCategories(prefs[i]) : i \in 1..Len(prefs)}}

AffinityOf(category) == DictGetOr(mood_preference_affinity, category, <<>>)

PooledAsClaimed(pool, category, weighted, prefs) ==
    \A i \in 1..Len(prefs) :
        DictHas(weighted, prefs[i]) =>
            /\ DictHas(pool, prefs[i])
            /\ DictGet(pool, prefs[i]) =
                   Rep(DictGet(weighted, prefs[i]),
                       IF InList(prefs[i], AffinityOf(category)) THEN 3 ELSE 2)

\* C10: out of the mood/preference filter, a supplied preference of the mood
\* category's affinity list has exactly 3 times its screen-time-weighted
\* list, and any other supplied preference exactly 2 times.
C10_PreferenceWeights ==
    /\ fn.name = "_apply_mood_rules" =>
            PooledAsClaimed(fn.ret, fn.args[1], fn.args[2], fn.args[3])
    /\ (pc # "idle" /\ InList("_apply_mood_rules", ran)) =>
            PooledAsClaimed(filtered_habits, mood_category, screened_habits,
                            normalized_preferences)

C10_Witness ==
    /\ fn.name = "_apply_mood_rules"
    /\ fn.args[1] = "stressed_anxious"
    /\ fn.args[3] = <<Lit("nature"), Lit("productivity")>>
    /\ Len(DictGet(fn.args[2], Lit("nature"))) = 10
    /\ Len(DictGet(fn.ret, Lit("nature"))) = 30
    /\ Len(DictGet(fn.ret, Lit("productivity"))) = 10

-----------------------------------------------------------------------------
(* The pool of a call without preferences *)

\* the words of the mood category 'negative'
NegativeMoodTexts ==
    {"sad", "down", "depressed", "angry", "frustrated", "irritated"}

\* list is base, n times over
IsRepeated(list, base, n) ==
    /\ Len(list) = n * Len(base)
    /\ \A j \in 1..Len(list) : list[j] = base[((j - 1) % Len(base)) + 1]

\* the categories a pool holds
PoolCategories(pool) == {pool[i].k : i \in 1..Len(pool)}

NegativeDefaults == {Lit("mindfulness"), Lit("social"), Lit("nature")}

\* the habits the catalog lists under productivity and creative
ProductivityOrCreative ==
    ToSet(DictGet(InitialHabits, Lit("productivity")))
        \cup ToSet(DictGet(InitialHabits, Lit("creative")))

\* C11: with an empty preference list and a mood of category 'negative', the
\* pool is exactly mindfulness, social and nature, each at 2 times its
\* screen-time-weighted list, and the habit returned is never a
\* productivity or creative habit, whatever the screen time and the draw.
C11_NegativeMoodDefaults ==
    /\ (pc # "idle" /\ InList("_apply_mood_rules", ran)
            /\ preferences = <<>> /\ mood.text \in NegativeMoodTexts) =>
        /\ Len(filtered_habits) = 3
        /\ PoolCategories(filtered_habits) = NegativeDefaults
        /\ \A i \in 1..Len(filtered_habits) :
            /\ filtered_habits[i].v =
                   Rep(DictGet(screened_habits, filtered_habits[i].k), 2)
            /\ IsRepeated(filtered_habits[i].v,
                   DictGet(InitialHabits, filtered_habits[i].k),
                   2 * ScreenTimeWeight(screen_time_minutes.val,
                                        filtered_habits[i].k))
        /\ selected_habit # None => selected_habit \notin ProductivityOrCreative
        /\ pc = "returned" => result[1].habit \notin ProductivityOrCreative
    /\ (fn.name = "_apply_mood_rules" /\ fn.args[1] = "negative"
            /\ fn.args[3] = <<>>) =>
        /\ Len(fn.ret) = 3
        /\ PoolCategories(fn.ret) = NegativeDefaults
        /\ \A i \in 1..Len(fn.ret) :
               fn.ret[i].v = Rep(DictGet(fn.args[2], fn.ret[i].k), 2)

C11_Witness ==
    /\ pc = "returned"
    /\ mood = Title("sad")
    /\ screen_time_minutes = IntVal(310)
    /\ preferences = <<>>
    /\ Len(DictGet(filtered_habits, Lit("nature"))) = 20
    /\ Len(DictGet(filtered_habits, Lit("social"))) = 10
    /\ result[1].habit = "Step outside for fresh air"

-----------------------------------------------------------------------------
(* The pool of a call with a screen time above 240 *)

\* how many times x occurs in list
Count(list, x) == Cardinality({i \in 1..Len(list) : list[i] = x})

\* the categories the screen-time rule doubles above 240
AffectedAbove240 ==
    {Lit("digital_wellbeing"), Lit("physical_activity"), Lit("nature")}

CatalogCategories == {InitialHabits[i].k : i \in 1..Len(InitialHabits)}

\* the pool is built and the call goes on to draw from it, or has drawn
PoolBuilt == pc \in {"select", "reasoning", "returned"}

\* the call is at the draw: filtered_habits is the pool it draws from
AtDraw == pc = "select"

\* the number of times the mood/preference filter repeats the list of a
\* category it selects: 3 for a supplied preference of the mood category's
\* affinity list, else 2
SelectionWeight(category) ==
    IF normalized_preferences # <<>>
       /\ InList(category, AffinityOf(mood_category))
    THEN 3
    ELSE 2

\* C12, as the claim states it: at screen time 310 the flattened pool holds
\* every habit of digital_wellbeing, physical_activity and nature, at twice
\* the frequency of every habit of every other category.
C12_AffectedTwiceInPool ==
    (AtDraw /\ screen_time_minutes = IntVal(310)) =>
        \A b \in AffectedAbove240, u \in CatalogCategories \ AffectedAbove240 :
            \A hb \in ToSet(DictGet(InitialHabits, b)),
               hu \in ToSet(DictGet(InitialHabits, u)) :
                /\ Count(flatten(filtered_habits), hb) > 0
                /\ Count(flatten(filtered_habits), hb) =
                       2 * Count(flatten(filtered_habits), hu)

\* C12, amended: at screen time 310 the screen-time-weighted catalog holds
\* the habits of digital_wellbeing, physical_activity and nature twice and
\* all others once; the flattened pool holds no habit of a category the
\* mood/preference filter did not select, and each habit of a selected
\* category as many times as its screen-time weight times its selection
\* weight (2 or 3), so that of two selected categories with the same
\* selection weight an affected one has twice the frequency of an
\* unaffected one.
C12_AffectedTwiceAmongSelected ==
    (AtDraw /\ screen_time_minutes = IntVal(310)) =>
        LET weighted == flatten(screened_habits)
            pool == flatten(filtered_habits)
            pooled == PoolCategories(filtered_habits)
            \* how often the habits of a category occur in the pool
            frequency ==
                [c \in CatalogCategories |->
                    {Count(pool, h) : h \in ToSet(DictGet(InitialHabits, c))}]
        IN
        /\ \A c \in CatalogCategories :
            /\ \A h \in ToSet(DictGet(InitialHabits, c)) :
                   Count(weighted, h) =
                       (IF c \in AffectedAbove240 THEN 2 ELSE 1)
            /\ frequency[c] =
                   {IF c \in pooled
                    THEN SelectionWeight(c)
                            * (IF c \in AffectedAbove240 THEN 2 ELSE 1)
                    ELSE 0}
        /\ \A b \in pooled \cap AffectedAbove240,
              u \in pooled \ AffectedAbove240 :
            SelectionWeight(b) = SelectionWeight(u) =>
                \A fb \in frequency[b], fu \in frequency[u] : fb = 2 * fu

\* nature, affected, and mindfulness, unaffected, are both selected with
\* weight 2: nature's habits are in the pool 4 times, mindfulness's twice
C12_Witness ==
    /\ AtDraw
    /\ screen_time_minutes = IntVal(310)
    /\ mood = Title("sad")
    /\ preferences = <<>>
    /\ Count(flatten(filtered_habits), "Water your plants") = 4
    /\ Count(flatten(filtered_habits), "Do a body scan meditation") = 2
    /\ Count(flatten(filtered_habits), "Do 10 jumping jacks") = 0

-----------------------------------------------------------------------------
(* The JSON text of to_json *)

\* to_json has returned its JSON text
ToJsonReturned == fn.name = "to_json" /\ fn.ret # <<>>

\* C13: the JSON text to_json returns, parsed back, has the keys mood,
\* screen_time_minutes, preferences and suggested_habit; the first three
\* hold the values of the request and suggested_habit holds the selected
\* habit string.
C13_ToJsonRoundTrip ==
    ToJsonReturned =>
        LET parsed == json_loads(fn.ret[1]).val IN
        /\ \A key \in {"mood", "screen_time_minutes", "preferences",
                       "suggested_habit"} : DictHas(parsed, key)
        /\ DictGet(parsed, "mood") = PyStr(mood)
        /\ DictGet(parsed, "screen_time_minutes") = screen_time_minutes
        /\ DictGet(parsed, "preferences") =
               PyList([i \in 1..Len(preferences) |-> PyStr(preferences[i])])
        /\ DictGet(parsed, "suggested_habit") = PyStr(selected_habit)

\* what the round trip does keep: the request's values under their keys, and
\* the selected habit under the key habit
C13_RoundTripKeepsResult ==
    ToJsonReturned =>
        LET parsed == json_loads(fn.ret[1]).val IN
        /\ DictGet(parsed, "mood") = PyStr(mood)
        /\ DictGet(parsed, "screen_time_minutes") = screen_time_minutes
        /\ DictGet(parsed, "preferences") =
               PyList([i \in 1..Len(preferences) |-> PyStr(preferences[i])])
        /\ DictGet(parsed, "habit") = PyStr(selected_habit)
        /\ ~DictHas(parsed, "suggested_habit")

-----------------------------------------------------------------------------
(* Persistence *)

\* C14: on a recommender constructed with a persistence service, the step
\* that completes a successful call has made exactly one more call of the
\* service's store operation, with the generated suggestion, and the result
\* returned carries a suggestion_id.
C14_StoresOnceAndReturnsId ==
    [][(pc = "reasoning" /\ pc' = "returned"
            /\ firebase_service # None /\ FIREBASE_AVAILABLE)
        => /\ Len(store_calls') = Len(store_calls) + 1
           /\ store_calls'[Len(store_calls')].suggestion_data.habit
                  = selected_habit
           /\ "suggestion_id" \in DOMAIN result'[1]]_vars

-----------------------------------------------------------------------------
(* The reasoning string *)

\* the display form of a canonical preference; of any other string, the
\* string capitalised
DisplayForm(p) ==
    IF \E i \in 1..Len(preference_display_names) :
            preference_display_names[i].k = p
    THEN preference_display_names[
            CHOOSE i \in 1..Len(preference_display_names) :
                preference_display_names[i].k = p].v
    ELSE Str(p.text, {1} \cap Letters(p.text))

\* the pieces of a list of n strings with sep between neighbours
Separated(strings, sep) ==
    [i \in 1..(2 * Len(strings) - 1) |->
        IF i % 2 = 1 THEN strings[(i + 1) \div 2] ELSE sep]

MoodSentence(m, category) ==
    <<Text("When you're feeling "), Interp(m),
      Text(MoodSentenceTail(category))>>

QuiteHighSentence ==
    <<Text("Your screen time is quite high today, so taking a break from devices could be beneficial.")>>

ModerateSentence ==
    <<Text("You've had a moderate amount of screen time today, so a short break might be refreshing.")>>

PreferenceSentence(prefs) ==
    <<Text("This suggestion aligns with your preference for ")>>
        \o Separated([i \in 1..Len(prefs) |-> Interp(DisplayForm(prefs[i]))],
                     Text(" and "))
        \o <<Text(".")>>

\* the sentences that are present, in order
Clauses(m, category, t, prefs) ==
    (IF category # None THEN <<MoodSentence(m, category)>> ELSE <<>>)
        \o (IF t > 240 THEN <<QuiteHighSentence>>
            ELSE IF 120 < t /\ t <= 240 THEN <<ModerateSentence>>
            ELSE <<>>)
        \o (IF prefs # <<>> THEN <<PreferenceSentence(prefs)>> ELSE <<>>)

\* reasoning is the clauses, one after the other, with exactly one space
\* between two of them and none before the first or after the last
IsSpaceJoin(reasoning, clauses) ==
    IF clauses = <<>> THEN reasoning = <<>>
    ELSE
    LET start(n) == IF n = 1 THEN 1
                    ELSE 1 + Len(clauses[1]) + 1
                           + (IF n = 3 THEN Len(clauses[2]) + 1 ELSE 0)
        last == Len(clauses)
    IN  /\ Len(reasoning) = start(last) + Len(clauses[last]) - 1
        /\ \A n \in 1..last :
            /\ \A j \in 1..Len(clauses[n]) :
                   reasoning[start(n) + j - 1] = clauses[n][j]
            /\ n > 1 => reasoning[start(n) - 1] = Text(" ")

ReasoningAsClaimed(reasoning, m, category, t, prefs) ==
    /\ IsSpaceJoin(reasoning, Clauses(m, category, t, prefs))
    /\ \A i \in 1..Len(reasoning) : reasoning[i] # Text("")

\* C15: the reasoning is the single-space join of the mood sentence with
\* the mood as supplied (iff the category is defined), the screen-time
\* sentence (iff t > 120; 'quite high' iff t > 240, 'moderate' iff
\* 120 < t <= 240) and the preference sentence with the display names
\* joined by ' and ' (iff the list is non-empty), with nothing in the place
\* of an omitted clause.
C15_ReasoningStructure ==
    /\ pc = "returned" =>
            ReasoningAsClaimed(result[1].reasoning, mood, mood_category,
                               screen_time_minutes.val, normalized_preferences)
    /\ fn.name = "_generate_reasoning" =>
            ReasoningAsClaimed(fn.ret, fn.args[1], fn.args[2], fn.args[3],
                               fn.args[4])

C15_Witness ==
    /\ pc = "returned"
    /\ mood = Upper("bored")
    /\ screen_time_minutes = IntVal(240)
    /\ normalized_preferences = <<Lit("physical_activity"), Lit("creative")>>
    /\ result[1].reasoning =
        <<Text("When you're feeling "), Interp(Upper("bored")),
          Text(", engaging in stimulating activities can help increase your motivation."),
          Text(" "),
          Text("You've had a moderate amount of screen time today, so a short break might be refreshing."),
          Text(" "),
          Text("This suggestion aligns with your preference for "),
          Interp(Str("physical activity", {1, 10})), Text(" and "),
          Interp(Str("creative", {1})), Text(".")>>

-----------------------------------------------------------------------------
(* Two callers at once *)

\* what a call with these arguments computes when no other call runs:
\* the statements of lines 152-171 applied one after the other to the
\* catalog as __init__ set it
AloneCategory(m) == classify(m)

AlonePool(m, t, prefs) ==
    apply_mood_rules(classify(m),
                     apply_screen_time_rules(InitialHabits, t.val).ret,
                     normalize_preferences(prefs))

AloneReasoning(m, t, prefs, habit) ==
    generate_reasoning(m, classify(m), t.val, normalize_preferences(prefs),
                       habit)

\* the frame f of a call agrees, as far as the call has got, with what the
\* call computes alone
AsIfAlone(f) ==
    /\ f.pc \in {"screen_time", "mood_rules", "select", "reasoning",
                 "returned"}
        => f.mood_category = AloneCategory(f.mood)
    /\ f.pc \in {"select", "reasoning", "returned"}
        => f.filtered_habits =
               AlonePool(f.mood, f.screen_time_minutes, f.preferences)
    /\ f.pc = "returned"
        => /\ f.result[1].mood_category = AloneCategory(f.mood)
           /\ f.result[1].reasoning =
                  AloneReasoning(f.mood, f.screen_time_minutes,
                                 f.preferences, f.result[1].habit)
           /\ f.result[1].habit \in
                  ToSet(flatten(AlonePool(f.mood, f.screen_time_minutes,
                                          f.preferences)))

\* the frame of the first caller, as a record
Frame ==
    [pc |-> pc, mood |-> mood, screen_time_minutes |-> screen_time_minutes,
     preferences |-> preferences,
     normalized_preferences |-> normalized_preferences,
     mood_category |-> mood_category, screened_habits |-> screened_habits,
     filtered_habits |-> filtered_habits, selected_habit |-> selected_habit,
     result |-> result, raised |-> raised]

\* C16: however the statements of two calls on the same recommender
\* interleave, each call's mood category, pool and reasoning are what the
\* call computes alone, and the catalog is unchanged in every state.
C16_CallsIndependent ==
    /\ habits = InitialHabits
    /\ AsIfAlone(Frame)
    /\ AsIfAlone(other)

\* both calls are past the screen-time filter, with different screen times,
\* and neither has returned
C16_Witness ==
    /\ pc = "select"
    /\ other.pc = "mood_rules"
    /\ mood = Title("stressed")
    /\ screen_time_minutes = IntVal(310)
    /\ other.mood = Title("happy")
    /\ other.screen_time_minutes = IntVal(150)
    /\ Len(DictGet(filtered_habits, Lit("nature"))) = 30
    /\ Len(DictGet(other.screened_habits, Lit("nature"))) = 5

-----------------------------------------------------------------------------
(* The same request twice *)

\* both callers sent the same mood, screen time and preference list
SameInputs ==
    /\ mood = other.mood
    /\ screen_time_minutes = other.screen_time_minutes
    /\ preferences = other.preferences

\* C17: with random.choice replaced by 'the first element of the flattened
\* pool', two calls with the same mood, screen time and preference list
\* build the same pool in the same order and select the same habit, its
\* first element.
C17_StubbedDrawDeterministic ==
    (random_choice = "first" /\ SameInputs
        /\ pc \in {"reasoning", "returned"}
        /\ other.pc \in {"reasoning", "returned"})
    => /\ filtered_habits = other.filtered_habits
       /\ flatten(filtered_habits) = flatten(other.filtered_habits)
       /\ selected_habit = other.selected_habit
       /\ selected_habit = flatten(filtered_habits)[1]

C17_Witness ==
    /\ random_choice = "first"
    /\ pc = "returned"
    /\ other.pc = "returned"
    /\ mood = Title("happy")
    /\ screen_time_minutes = IntVal(150)
    /\ preferences = <<Title("productivity"), Title("creative")>>
    /\ SameInputs
    /\ result[1].habit = "Tidy your workspace"
    /\ other.result[1].habit = "Tidy your workspace"

-----------------------------------------------------------------------------
(* The status of POST /recommend *)

\* the body is no JSON object, or an object without one of the three fields
LacksField(body) ==
    \/ body.json # "object"
    \/ \E f \in {"mood", "screen_time_minutes", "preferences"} :
           ~DictHas(body.val, f)

\* a field of the right type and a valid value
MoodFieldValid(v) == v.json = "string" /\ IsValidMood(v.val)

ScreenTimeFieldValid(v) == v.json = "number" /\ v.val >= 0

PreferencesFieldValid(v) ==
    /\ v.json = "array"
    /\ \A i \in 1..Len(v.val) :
           v.val[i].json = "string" /\ NamedCategories(v.val[i].val) # {}

FieldsValid(body) ==
    /\ MoodFieldValid(DictGet(body.val, "mood"))
    /\ ScreenTimeFieldValid(DictGet(body.val, "screen_time_minutes"))
    /\ PreferencesFieldValid(DictGet(body.val, "preferences"))

\* C18: POST /recommend answers 400 to a request that lacks a field (no JSON
\* object body included) or whose fields fail validation (wrong types
\* included), 200 to a request whose fields are all valid, and so 500 to
\* none of them.
C18_StatusCodes ==
    fn.name = "POST /recommend" =>
        fn.ret[1].status =
            IF LacksField(fn.args[1]) THEN 400
            ELSE IF ~FieldsValid(fn.args[1]) THEN 400
            ELSE 200

-----------------------------------------------------------------------------
(* The pool of every valid request *)

\* the categories the request's preferences name
RequestedCategories ==
    UNION {NamedCategories(preferences[i]) : i \in 1..Len(preferences)}

CatalogHabits ==
    UNION {ToSet(InitialHabits[i].v) : i \in 1..Len(InitialHabits)}

-----------------------------------------------------------------------------
(* Which error a request with several invalid fields gets *)

\* the positions of the preference list that name no category
OffendingPositions ==
    {i \in 1..Len(preferences) : NamedCategories(preferences[i]) = {}}

\* how many fields of the request are invalid, each invalid preference
\* counting as one
InvalidFields ==
    (IF IsValidMood(mood) THEN 0 ELSE 1)
        + (IF IsValidScreenTime(screen_time_minutes) THEN 0 ELSE 1)
        + Cardinality(OffendingPositions)

\* C20: of a request with more than one invalid field, the error is the
\* invalid-mood error if the mood is invalid; else the screen-time error if
\* the screen time is invalid; else the invalid-preference error naming the
\* first invalid preference in list order.
C20_ErrorPrecedence ==
    (Validated /\ InvalidFields > 1) =>
        /\ pc = "raised"
        /\ Len(raised) = 1
        /\ raised[1].exc = "ValueError"
        /\ IF ~IsValidMood(mood)
           THEN raised[1].head = "Invalid mood: " /\ raised[1].value = mood
           ELSE IF ~IsValidScreenTime(screen_time_minutes)
           THEN raised[1].head
                    = "Screen time must be a positive number of minutes"
           ELSE /\ raised[1].head = "Invalid preference: "
                /\ raised[1].value =
                       preferences[CHOOSE i \in OffendingPositions :
                                       \A j \in OffendingPositions : i <= j]

C20_Witness ==
    /\ pc = "raised"
    /\ IsValidMood(mood)
    /\ screen_time_minutes = IntVal(120)
    /\ preferences = <<Title("n"), Title("general")>>
    /\ raised[1].head = "Invalid preference: "
    /\ raised[1].value = Title("n")

====
